---- MODULE Spec2Model ----
(***************************************************************************)
(* Model of Source/Plan.rs: the fork-synchronisation pipeline `main` and   *)
(* the functions it is built from, acting on one git repository (remotes,  *)
(* local branches, HEAD, remote-tracking refs, index, working tree) and    *)
(* on the answers of the hosting platform (`gh`).                          *)
(*                                                                         *)
(* Paths are sequences of components, as std::path::Path sees them: a      *)
(* leading "." is a component of its own (Component::CurDir).              *)
(***************************************************************************)
EXTENDS Naturals, Sequences, FiniteSets, TLC

(***************************************************************************)
(* Bounds of the model.                                                    *)
(***************************************************************************)
\* number of functions applied one after another when they are called
\* outside main
MaxCalls == 2

(***************************************************************************)
(* Names.                                                                  *)
(***************************************************************************)
NoRemote == "no-remote"
NoCommit == "no-commit"
NoUpstream == "no-upstream"
Absent == "absent"

RemoteNames == {"Parent", "Source", "origin"}
BranchNames == {"main", "Current", "Previous", "Branch", "$Branch"}
TrackingRefs == {"Parent/main", "Parent/dev", "Source/Current", "Source/Previous",
                 "Source/main", "Source/Branch"}
Commits == {"cB", "cH", "cN", "cP", "cD", "cS"}

\* the files a working tree or a commit's tree may hold
AllFiles ==
  { <<".gitignore">>, <<"package.json">>, <<"tsconfig.json">>, <<"notes.txt">>,
    <<"src">>, <<"src", "main.ts">>, <<"sub", "package.json">>,
    <<"node_modules", "pkg", ".gitignore">>, <<".git", "hooks", ".gitignore">> }

\* directories of the repository that exist whatever the working tree holds
FixedDirs == { <<>>, <<".git">>, <<".git", "hooks">> }

(***************************************************************************)
(* Paths (std::path::Path).                                                *)
(***************************************************************************)
IsPrefix(p, q) == Len(p) <= Len(q) /\ SubSeq(q, 1, Len(p)) = p

\* Path::starts_with: whole components are compared, "." included
StartsWith(path, base) == IsPrefix(base, path)

\* Path::file_name: the last component if it is a normal one
NoFileName == "no-file-name"
FileName(path) ==
  IF path = <<>> \/ path[Len(path)] \in {".", ".."} THEN NoFileName
  ELSE path[Len(path)]

\* the file the operating system opens for a relative path: "." components
\* are skipped
RECURSIVE FsPath(_)
FsPath(path) ==
  IF path = <<>> THEN <<>>
  ELSE IF Head(path) = "." THEN FsPath(Tail(path))
  ELSE <<Head(path)>> \o FsPath(Tail(path))

\* walkdir: the entry of a file below the root "." is the root joined with
\* the file's relative path
WalkPath(file) == <<".">> \o file

(***************************************************************************)
(* Commits and their trees (the object database, read-only here).          *)
(***************************************************************************)
EmptyTree == [f \in AllFiles |-> Absent]

TreeOf(c) ==
  CASE c = "cB" -> [EmptyTree EXCEPT ![<<".gitignore">>] = "b",
                                     ![<<"package.json">>] = "b",
                                     ![<<"notes.txt">>] = "b",
                                     ![<<"src", "main.ts">>] = "b"]
    [] c = "cH" -> [EmptyTree EXCEPT ![<<".gitignore">>] = "h",
                                     ![<<"package.json">>] = "h",
                                     ![<<"tsconfig.json">>] = "h",
                                     ![<<"notes.txt">>] = "b",
                                     ![<<"src", "main.ts">>] = "h"]
    [] c = "cN" -> [EmptyTree EXCEPT ![<<"tsconfig.json">>] = "h",
                                     ![<<"notes.txt">>] = "b",
                                     ![<<"src", "main.ts">>] = "h"]
    [] c = "cP" -> [EmptyTree EXCEPT ![<<".gitignore">>] = "p",
                                     ![<<"package.json">>] = "p",
                                     ![<<"tsconfig.json">>] = "p",
                                     ![<<"src", "main.ts">>] = "p",
                                     ![<<"sub", "package.json">>] = "p"]
    [] c = "cD" -> [EmptyTree EXCEPT ![<<".gitignore">>] = "d",
                                     ![<<"package.json">>] = "d",
                                     ![<<"tsconfig.json">>] = "d",
                                     ![<<"src">>] = "d",
                                     ![<<"sub", "package.json">>] = "d"]
    [] c = "cS" -> [EmptyTree EXCEPT ![<<".gitignore">>] = "h",
                                     ![<<"package.json">>] = "s",
                                     ![<<"tsconfig.json">>] = "h",
                                     ![<<"src", "main.ts">>] = "h"]
    [] OTHER -> EmptyTree

\* the merge base of two commits: cB is the parent of cH, cN and cP, cS is
\* a child of cH, cD is a root of its own (an unrelated history)
MergeBase(ours, theirs) ==
  IF ours = theirs THEN ours
  ELSE IF "cD" \in {ours, theirs} \/ NoCommit \in {ours, theirs} THEN NoCommit
  ELSE IF {ours, theirs} = {"cH", "cS"} THEN "cH"
  ELSE "cB"

\* git_tree_entry_bypath: the path is split at "/" and every component is
\* looked up as an entry name; no tree has an entry named "." or ".."
NotFound == "not-found"
IsTree == "tree"
TreeGetPath(tree, path) ==
  IF path = <<>> THEN NotFound
  ELSE IF \E i \in 1..Len(path) : path[i] \in {".", ".."} THEN NotFound
  ELSE IF path \in AllFiles /\ tree[path] # Absent THEN tree[path]
  ELSE IF \E f \in AllFiles : tree[f] # Absent /\ IsPrefix(path, f) THEN IsTree
  ELSE NotFound

\* the commit a remote's branch points at on the server, fetched into the
\* remote-tracking ref of that branch
ServerTip(ref) ==
  CASE ref = "Parent/main" -> "cP"
    [] ref = "Parent/dev" -> "cD"
    [] ref = "Source/Current" -> "cS"
    [] ref = "Source/Previous" -> "cH"
    [] ref = "Source/main" -> "cH"
    [] OTHER -> NoCommit

\* format!("{}/{}", remote, branch)
RemoteBranch(remote, branch) ==
  CASE <<remote, branch>> = <<"Parent", "main">> -> "Parent/main"
    [] <<remote, branch>> = <<"Parent", "dev">> -> "Parent/dev"
    [] <<remote, branch>> = <<"Source", "Current">> -> "Source/Current"
    [] <<remote, branch>> = <<"Source", "Previous">> -> "Source/Previous"
    [] <<remote, branch>> = <<"Source", "main">> -> "Source/main"
    [] <<remote, branch>> = <<"Source", "Branch">> -> "Source/Branch"
    [] OTHER -> "no-ref"

\* the remote of a remote-tracking ref
RemoteOf(ref) ==
  IF ref \in {"Parent/main", "Parent/dev"} THEN "Parent" ELSE "Source"

(***************************************************************************)
(* The hosting platform: what the two `gh repo view` queries answer.       *)
(*   spawnfail  gh cannot be started                                       *)
(*   exit1      gh exits non-zero and prints nothing on stdout             *)
(*   garbage    stdout is not JSON                                         *)
(*   nofield    stdout is JSON without the field read ({"parent": null},   *)
(*              {"defaultBranchRef": null})                                *)
(*   ok         stdout is JSON with the field                              *)
(***************************************************************************)
GhOk(name) == [q1 |-> "ok", q2 |-> "ok", name |-> name]
GhStates ==
  { GhOk("main"), GhOk("dev"),
    [q1 |-> "spawnfail", q2 |-> "ok", name |-> "main"],
    [q1 |-> "exit1", q2 |-> "ok", name |-> "main"],
    [q1 |-> "garbage", q2 |-> "ok", name |-> "main"],
    [q1 |-> "nofield", q2 |-> "ok", name |-> "main"],
    [q1 |-> "ok", q2 |-> "exit1", name |-> "main"],
    [q1 |-> "ok", q2 |-> "garbage", name |-> "main"],
    [q1 |-> "ok", q2 |-> "nofield", name |-> "main"] }

\* how an external command ended: it could not be started, or it exited
\* with status 0 or with another status
NoExit == "none"
ExtOutcomes == {"spawnfail", "exit0", "exit1"}

\* Command::status()?: an Err only when the command could not be started
StatusResult(ext) == IF ext = "spawnfail" THEN "Err" ELSE "Ok"

\* outcomes of a call: Ok, Err (an Err value handed to the caller), Panic
Ok == "Ok"
Err == "Err"
Panic == "Panic"

\* get_parent_default_branch: Err, Panic or the branch name
GetParentDefaultBranch(g) ==
  IF g.q1 \in {"spawnfail", "exit1", "garbage"} THEN Err
  ELSE IF g.q1 = "nofield" THEN Panic
  ELSE IF g.q2 \in {"spawnfail", "exit1", "garbage"} THEN Err
  ELSE IF g.q2 = "nofield" THEN Panic
  ELSE g.name

(***************************************************************************)
(* The working tree: the content of every file, Absent when there is none. *)
(* A directory exists when it holds a file (or is one of FixedDirs).       *)
(***************************************************************************)
DirExists(wt, d) ==
  \/ d \in FixedDirs
  \/ \E g \in AllFiles : wt[g] # Absent /\ IsPrefix(d, g) /\ Len(d) < Len(g)

\* std::fs::write(path, content): the file is created or truncated; its
\* directory is not created, and a directory cannot be written
FsWrite(wt, path, content) ==
  LET f == FsPath(path) IN
  IF f = <<>> \/ DirExists(wt, f) THEN [res |-> Err, wt |-> wt]
  ELSE IF ~DirExists(wt, SubSeq(f, 1, Len(f) - 1)) THEN [res |-> Err, wt |-> wt]
  ELSE IF f \notin AllFiles THEN [res |-> Err, wt |-> wt]
  ELSE [res |-> Ok, wt |-> [wt EXCEPT ![f] = content]]

UnderGit(f) == IsPrefix(<<".git">>, f)

\* two paths of which one is a directory of the other
Clash(f, g) == f # g /\ (IsPrefix(f, g) \/ IsPrefix(g, f))

\* (mutant) a reset that leaves the working tree as it is
Checkout_Mixed(wt, idx, tree) == wt

\* a forced checkout of a tree: its files are written, tracked files it does
\* not hold are removed, and whatever is in the way of its files is removed
Checkout(wt, idx, tree) ==
  [f \in AllFiles |->
     IF tree[f] # Absent THEN tree[f]
     ELSE IF f \in idx THEN Absent
     ELSE IF \E g \in AllFiles : tree[g] # Absent /\ Clash(f, g) THEN Absent
     ELSE wt[f]]

TreeFiles(tree) == {f \in AllFiles : tree[f] # Absent}

(***************************************************************************)
(* State.                                                                  *)
(***************************************************************************)
VARIABLES
  remotes,    \* remote name -> url, NoRemote when there is none
  branches,   \* local branch -> commit, NoCommit when there is none
  head,       \* the local branch HEAD references
  upstream,   \* local branch -> its upstream, NoUpstream when unset
  tracking,   \* remote-tracking ref -> commit, NoCommit when there is none
  worktree,   \* file -> content
  index,      \* the tracked files
  gh,         \* the platform's answers
  pc,         \* 0: the functions are called one by one; k > 0: main is about
              \* to run its k-th statement
  status,     \* running, ok (main returned Ok(())), err, panic
  ncalls,     \* functions called so far outside main
  last,       \* the call that ran last, with its outcome
  prev,       \* the call before it
  prewt,      \* the working tree before the last call
  written,    \* the files the last call wrote (std::fs::write that succeeded)
  invoked,    \* the paths the last call handed to restore_file_from_parent
  fetched,    \* the remote-tracking refs that fetch_from_remote and
              \* fetch_unshallow have updated so far
  extok       \* every external command main has run so far exited with 0

vars == <<remotes, branches, head, upstream, tracking, worktree, index, gh, pc,
          status, ncalls, last, prev, prewt, written, invoked, fetched,
          extok>>

repo == <<remotes, branches, head, upstream, tracking, worktree, index>>

NoCall ==
  [fn |-> "none", a |-> "", b |-> "", path |-> <<>>, res |-> Ok, exit |-> "none",
   name |-> ""]
Call(fn, a, b, path) == [fn |-> fn, a |-> a, b |-> b, path |-> path]

(***************************************************************************)
(* main: its statements in order, each `f(...)?;`                          *)
(***************************************************************************)
MainStmts ==
  << Call("restore_gitignore_from_parent", "", "", <<>>),
     Call("restore_package_json_from_parent", "", "", <<>>),
     Call("set_default_repo", "", "", <<>>),
     Call("add_all", "", "", <<>>),
     Call("set_upstream", "Current", "Source/Current", <<>>),
     Call("set_upstream", "Previous", "Source/Previous", <<>>),
     Call("clean", "", "", <<>>),
     Call("fetch_from_remote", "Parent", "", <<>>),
     Call("fetch_from_remote", "Source", "", <<>>),
     Call("fetch_unshallow", "Parent", "", <<>>),
     Call("merge_from_parent", "", "", <<>>),
     Call("pull", "", "", <<>>),
     Call("push", "Source", "HEAD", <<>>),
     Call("push_set_upstream", "Source", "Branch", <<>>),
     Call("add_remote", "Parent", "$Parent", <<>>),
     Call("add_remote", "Source", "$Source", <<>>),
     Call("remove_remote", "Parent", "", <<>>),
     Call("remove_remote", "origin", "", <<>>),
     Call("set_remote_url", "Parent", "$Parent", <<>>),
     Call("set_remote_url", "Source", "$Source", <<>>),
     Call("reset_hard_to_parent", "", "", <<>>),
     Call("reset_file", "", "", <<"package.json">>),
     Call("restore_file_from_parent", "", "", <<"package.json">>),
     Call("restore_file_from_parent", "", "", <<"src">>),
     Call("restore_file_from_parent", "", "", <<"tsconfig.json">>),
     Call("restore_from_source", "Source/Current", "", <<"package.json">>),
     Call("restore_file", "", "", <<"package.json">>),
     Call("add_submodule", "$Origin", "$SubDependency", <<>>),
     Call("switch_branch", "$Branch", "", <<>>),
     Call("create_and_switch_branch", "$Branch", "", <<>>),
     Call("create_and_switch_branch", "Current", "", <<>>),
     Call("create_and_switch_branch", "Previous", "", <<>>),
     Call("switch_branch", "Current", "", <<>>),
     Call("switch_branch", "Previous", "", <<>>) >>

NStmts == Len(MainStmts)

\* the function is called with these arguments: by main, as its next
\* statement, or on its own
Called(c) ==
  \/ pc = 0 /\ ncalls < MaxCalls
  \/ pc \in 1..NStmts /\ status = "running" /\ MainStmts[pc] = c

\* the functions whose first statement is `get_parent_default_branch()?`
ResolverUsers ==
  { "restore_gitignore_from_parent", "restore_package_json_from_parent",
    "restore_file_from_parent", "merge_from_parent", "reset_hard_to_parent",
    "get_parent_default_branch" }

\* the branch name get_parent_default_branch() hands to the function that
\* is called now, "" when the function does not ask or gets no name
Resolved(fn) ==
  IF fn \in ResolverUsers /\ GetParentDefaultBranch(gh) \notin {Err, Panic}
  THEN GetParentDefaultBranch(gh) ELSE ""

\* the remote-tracking refs the call updates by fetching: the one of main
\* (remote.fetch(&["main"], ...)), or every branch of the remote (`git fetch
\* <remote> --unshallow`, when it succeeds)
Fetches(c, res, exit) ==
  IF c.fn = "fetch_from_remote" /\ res = Ok THEN {RemoteBranch(c.a, "main")}
  ELSE IF c.fn = "fetch_unshallow" /\ exit = "exit0"
       THEN {t \in TrackingRefs : RemoteOf(t) = c.a}
  ELSE {}

\* the call returns to the statement `f(...)?;` that made it: `?` hands an
\* Err to the caller's caller, a panic unwinds, and after its last statement
\* main returns Ok(())
Return(c, res, exit) ==
  /\ last' = [fn |-> c.fn, a |-> c.a, b |-> c.b, path |-> c.path,
              res |-> res, exit |-> exit, name |-> Resolved(c.fn)]
  /\ fetched' = fetched \cup Fetches(c, res, exit)
  /\ extok' = (extok /\ (pc = 0 \/ exit \in {NoExit, "exit0"}))
  /\ prev' = last
  /\ prewt' = worktree
  /\ ncalls' = IF pc = 0 THEN ncalls + 1 ELSE ncalls
  /\ pc' = IF pc > 0 /\ res = Ok THEN pc + 1 ELSE pc
  /\ status' = IF res = Err THEN "err"
               ELSE IF res = Panic THEN "panic"
               ELSE IF pc = NStmts THEN "ok"
               ELSE "running"
  /\ gh' = gh

(***************************************************************************)
(* File Restorer.                                                          *)
(***************************************************************************)
\* (mutant) a path the tree does not hold reads as an empty blob
BlobAt_MissingIsEmpty(commit, path) ==
  LET e == TreeGetPath(TreeOf(commit), path) IN
  IF e = IsTree THEN Err ELSE IF e = NotFound THEN "" ELSE e

\* tree.get_path(path), then the entry as a blob: its content, or Err when
\* the path is not in the tree or is not a blob
BlobAt(commit, path) ==
  LET e == TreeGetPath(TreeOf(commit), path) IN
  IF e \in {NotFound, IsTree} THEN Err ELSE e

\* the tip of the parent's default branch: Err, Panic or a commit
\* (get_parent_default_branch, then find_branch("Parent/<branch>", Remote))
ParentTip ==
  LET b == GetParentDefaultBranch(gh) IN
  IF b \in {Err, Panic} THEN b
  ELSE IF RemoteBranch("Parent", b) \notin TrackingRefs THEN Err
  ELSE IF tracking[RemoteBranch("Parent", b)] = NoCommit THEN Err
  ELSE tracking[RemoteBranch("Parent", b)]

\* (mutant) the working tree mirrors the tree: a file the tree does not hold
\* is removed
RestoreFrom_Mirror(commit, wt, path) ==
  IF commit \in {Err, Panic} THEN [res |-> commit, wt |-> wt]
  ELSE IF TreeGetPath(TreeOf(commit), path) = NotFound /\ FsPath(path) \in AllFiles
       THEN [res |-> Ok, wt |-> [wt EXCEPT ![FsPath(path)] = Absent]]
  ELSE IF BlobAt(commit, path) = Err THEN [res |-> Err, wt |-> wt]
  ELSE FsWrite(wt, path, BlobAt(commit, path))

\* write the blob that `path` names in the commit's tree to the file `path`
RestoreFrom(commit, wt, path) ==
  IF commit \in {Err, Panic} THEN [res |-> commit, wt |-> wt]
  ELSE IF BlobAt(commit, path) = Err THEN [res |-> Err, wt |-> wt]
  ELSE FsWrite(wt, path, BlobAt(commit, path))

\* restore_file_from_parent(repo, file_path)
RestoreFileFromParent(wt, path) == RestoreFrom(ParentTip, wt, path)

\* repo.revparse_single(source) for the name of a remote-tracking branch
RevparseSingle(source) ==
  IF source \in TrackingRefs /\ tracking[source] # NoCommit THEN tracking[source]
  ELSE Err

\* restore_from_source(repo, source, file)
RestoreFromSource(wt, source, path) == RestoreFrom(RevparseSingle(source), wt, path)

\* repo.head(): the commit of the branch HEAD references, Err when the
\* branch is unborn
HeadCommit == IF branches[head] = NoCommit THEN Err ELSE branches[head]

\* (mutant) the file is taken from the parent's tip instead of HEAD
RestoreFile_FromParent(wt, path) == RestoreFrom(ParentTip, wt, path)

\* (mutant) the file is taken from Source/Current instead of HEAD
RestoreFile_FromSource(wt, path) == RestoreFrom(RevparseSingle("Source/Current"), wt, path)

\* restore_file(repo, file)
RestoreFile(wt, path) == RestoreFrom(HeadCommit, wt, path)

(***************************************************************************)
(* Override Sweeper.                                                       *)
(***************************************************************************)
\* the entries of WalkDir::new(".") that pass the filter of the loop
SweepTargets(wt, filename) ==
  { WalkPath(f) : f \in
      { g \in AllFiles :
          /\ wt[g] # Absent
          /\ FileName(WalkPath(g)) = filename
          /\ ~StartsWith(WalkPath(g), <<"node_modules">>)
          /\ ~StartsWith(WalkPath(g), <<".git">>) } }

\* the orders in which a directory walk may yield the entries
Perms(S) ==
  { s \in [1..Cardinality(S) -> S] : \A i, j \in 1..Cardinality(S) : s[i] = s[j] => i = j }

\* the loop: every entry is restored, the first failure ends the loop
RECURSIVE SweepLoop(_, _, _)
SweepLoop(order, i, acc) ==
  IF i > Len(order) \/ acc.res # Ok THEN acc
  ELSE LET r == RestoreFileFromParent(acc.wt, order[i]) IN
       SweepLoop(order, i + 1,
                 [res |-> r.res, wt |-> r.wt,
                  written |-> acc.written \cup
                              (IF r.res = Ok THEN {FsPath(order[i])} ELSE {}),
                  invoked |-> acc.invoked \cup {order[i]}])

\* restore_gitignore_from_parent / restore_package_json_from_parent
Sweep(wt, order) ==
  LET b == GetParentDefaultBranch(gh)
      start == [res |-> Ok, wt |-> wt, written |-> {}, invoked |-> {}] IN
  IF b \in {Err, Panic} THEN [start EXCEPT !.res = b]
  ELSE SweepLoop(order, 1, start)

SweepAction(c, filename) ==
  /\ Called(c)
  /\ \E order \in Perms(SweepTargets(worktree, filename)) :
       LET r == Sweep(worktree, order) IN
       /\ worktree' = r.wt
       /\ written' = r.written
       /\ invoked' = r.invoked
       /\ Return(c, r.res, NoExit)
  /\ UNCHANGED <<remotes, branches, head, upstream, tracking, index>>

restore_gitignore_from_parent ==
  SweepAction(Call("restore_gitignore_from_parent", "", "", <<>>), ".gitignore")

restore_package_json_from_parent ==
  SweepAction(Call("restore_package_json_from_parent", "", "", <<>>), "package.json")

\* the paths a restore is called with outside main
PathArgs ==
  { <<"package.json">>, <<"src">>, <<"tsconfig.json">>, <<"notes.txt">>,
    <<"sub", "package.json">> }
FewPathArgs == { <<"package.json">>, <<"src">> }

RestoreAction(c, r) ==
  /\ Called(c)
  /\ worktree' = r.wt
  /\ written' = IF r.res = Ok THEN {FsPath(c.path)} ELSE {}
  /\ Return(c, r.res, NoExit)
  /\ UNCHANGED <<remotes, branches, head, upstream, tracking, index>>

restore_file_from_parent ==
  \E path \in PathArgs :
    /\ RestoreAction(Call("restore_file_from_parent", "", "", path),
                     RestoreFileFromParent(worktree, path))
    /\ invoked' = {path}

restore_from_source ==
  \E path \in FewPathArgs :
    /\ RestoreAction(Call("restore_from_source", "Source/Current", "", path),
                     RestoreFromSource(worktree, "Source/Current", path))
    /\ invoked' = {}

restore_file ==
  \E path \in FewPathArgs :
    /\ RestoreAction(Call("restore_file", "", "", path), RestoreFile(worktree, path))
    /\ invoked' = {}

\* get_parent_default_branch() on its own
get_parent_default_branch ==
  LET c == Call("get_parent_default_branch", "", "", <<>>)
      b == GetParentDefaultBranch(gh) IN
  /\ Called(c)
  /\ Return([c EXCEPT !.b = IF b \in {Err, Panic} THEN "" ELSE b],
            IF b \in {Err, Panic} THEN b ELSE Ok, NoExit)
  /\ written' = {}
  /\ invoked' = {}
  /\ UNCHANGED repo

(***************************************************************************)
(* Remote Manager.                                                         *)
(***************************************************************************)
\* repo.remote(name, url): fails when the remote exists
AddRemote(rs, name, url) ==
  IF rs[name] # NoRemote THEN [res |-> Err, remotes |-> rs]
  ELSE [res |-> Ok, remotes |-> [rs EXCEPT ![name] = url]]

add_remote ==
  \E c \in { Call("add_remote", "Parent", "$Parent", <<>>),
             Call("add_remote", "Source", "$Source", <<>>) } :
    LET r == AddRemote(remotes, c.a, c.b) IN
    /\ Called(c)
    /\ remotes' = r.remotes
    /\ Return(c, r.res, NoExit)
    /\ written' = {}
    /\ invoked' = {}
    /\ UNCHANGED <<branches, head, upstream, tracking, worktree, index>>

\* repo.remote_delete(name): fails when there is no such remote; removes the
\* remote with its remote-tracking branches and the upstream settings that
\* name them
RemoveRemote(rs, name) ==
  IF rs[name] = NoRemote THEN [res |-> Err, remotes |-> rs]
  ELSE [res |-> Ok, remotes |-> [rs EXCEPT ![name] = NoRemote]]

remove_remote ==
  \E name \in RemoteNames :
    LET c == Call("remove_remote", name, "", <<>>)
        r == RemoveRemote(remotes, name) IN
    /\ Called(c)
    /\ remotes' = r.remotes
    /\ tracking' = [t \in TrackingRefs |->
                      IF r.res = Ok /\ RemoteOf(t) = name THEN NoCommit ELSE tracking[t]]
    /\ upstream' = [b \in BranchNames |->
                      IF r.res = Ok /\ upstream[b] # NoUpstream /\ RemoteOf(upstream[b]) = name
                      THEN NoUpstream ELSE upstream[b]]
    /\ Return(c, r.res, NoExit)
    /\ written' = {}
    /\ invoked' = {}
    /\ UNCHANGED <<branches, head, worktree, index>>

\* repo.remote_set_url(name, url): writes remote.<name>.url; the remote is
\* not looked up
SetRemoteUrl(rs, name, url) == [res |-> Ok, remotes |-> [rs EXCEPT ![name] = url]]

set_remote_url ==
  \E c \in { Call("set_remote_url", "Parent", "$Parent", <<>>),
             Call("set_remote_url", "Source", "$Source", <<>>) } :
    LET r == SetRemoteUrl(remotes, c.a, c.b) IN
    /\ Called(c)
    /\ remotes' = r.remotes
    /\ Return(c, r.res, NoExit)
    /\ written' = {}
    /\ invoked' = {}
    /\ UNCHANGED <<branches, head, upstream, tracking, worktree, index>>

\* (mutant) the local branch is not looked up
SetUpstream_NoLookup(ups, local, up) ==
  IF up \notin TrackingRefs THEN [res |-> Err, upstream |-> ups]
  ELSE IF tracking[up] = NoCommit \/ remotes[RemoteOf(up)] = NoRemote
       THEN [res |-> Err, upstream |-> ups]
  ELSE [res |-> Ok, upstream |-> [ups EXCEPT ![local] = up]]

\* set_upstream(repo, local_branch, upstream): find_branch fails when the
\* local branch does not exist, Branch::set_upstream when the upstream
\* branch does not
SetUpstream(ups, local, up) ==
  IF branches[local] = NoCommit THEN [res |-> Err, upstream |-> ups]
  ELSE IF up \notin TrackingRefs THEN [res |-> Err, upstream |-> ups]
  ELSE IF tracking[up] = NoCommit \/ remotes[RemoteOf(up)] = NoRemote
       THEN [res |-> Err, upstream |-> ups]
  ELSE [res |-> Ok, upstream |-> [ups EXCEPT ![local] = up]]

set_upstream ==
  \E c \in { Call("set_upstream", "Current", "Source/Current", <<>>),
             Call("set_upstream", "Previous", "Source/Previous", <<>>) } :
    LET r == SetUpstream(upstream, c.a, c.b) IN
    /\ Called(c)
    /\ upstream' = r.upstream
    /\ Return(c, r.res, NoExit)
    /\ written' = {}
    /\ invoked' = {}
    /\ UNCHANGED <<remotes, branches, head, tracking, worktree, index>>

\* fetch_from_remote(repo, remote_name, true, 1): the branch main of the
\* remote is fetched; the network may fail
fetch_from_remote ==
  \E name \in {"Parent", "Source"}, net \in BOOLEAN :
    LET c == Call("fetch_from_remote", name, "", <<>>)
        ref == RemoteBranch(name, "main")
        res == IF remotes[name] = NoRemote \/ ~net THEN Err ELSE Ok IN
    /\ Called(c)
    /\ tracking' = IF res = Ok THEN [tracking EXCEPT ![ref] = ServerTip(ref)]
                   ELSE tracking
    /\ Return(c, res, NoExit)
    /\ written' = {}
    /\ invoked' = {}
    /\ UNCHANGED <<remotes, branches, head, upstream, worktree, index>>

\* push(repo, remote_name, refspec)
push ==
  \E net \in BOOLEAN :
    LET c == Call("push", "Source", "HEAD", <<>>)
        res == IF remotes["Source"] = NoRemote \/ ~net THEN Err ELSE Ok IN
    /\ Called(c)
    /\ Return(c, res, NoExit)
    /\ written' = {}
    /\ invoked' = {}
    /\ UNCHANGED repo

\* push_set_upstream(repo, remote_name, branch, force): the push, which
\* moves the remote-tracking ref of the branch, then set_upstream
push_set_upstream ==
  \E net \in BOOLEAN :
    LET c == Call("push_set_upstream", "Source", "Branch", <<>>)
        ref == RemoteBranch("Source", "Branch")
        pushed == remotes["Source"] # NoRemote /\ branches["Branch"] # NoCommit /\ net IN
    /\ Called(c)
    /\ tracking' = IF pushed THEN [tracking EXCEPT ![ref] = branches["Branch"]]
                   ELSE tracking
    /\ upstream' = IF pushed THEN [upstream EXCEPT !["Branch"] = ref] ELSE upstream
    /\ Return(c, IF pushed THEN Ok ELSE Err, NoExit)
    /\ written' = {}
    /\ invoked' = {}
    /\ UNCHANGED <<remotes, branches, head, worktree, index>>

(***************************************************************************)
(* Steps that run an external command.                                     *)
(***************************************************************************)
\* set_default_repo(repo): find_remote("Source")?, then `gh repo set-default`
set_default_repo ==
  \E ext \in ExtOutcomes :
    LET c == Call("set_default_repo", "", "", <<>>)
        found == remotes["Source"] # NoRemote IN
    /\ Called(c)
    /\ Return(c, IF found THEN StatusResult(ext) ELSE Err, IF found THEN ext ELSE NoExit)
    /\ written' = {}
    /\ invoked' = {}
    /\ UNCHANGED repo

\* `git clean -dfx`, when it succeeds: the untracked files are removed
Cleaned(wt, idx) ==
  [f \in AllFiles |-> IF f \in idx \/ UnderGit(f) THEN wt[f] ELSE Absent]

\* clean(repo): the command is run in repo.path(), the .git directory;
\* whether git cleans the working tree from there is left open, it may exit
\* with either status
clean ==
  \E ext \in ExtOutcomes :
    LET c == Call("clean", "", "", <<>>) IN
    /\ Called(c)
    /\ worktree' = IF ext = "exit0" THEN Cleaned(worktree, index) ELSE worktree
    /\ Return(c, StatusResult(ext), ext)
    /\ written' = {}
    /\ invoked' = {}
    /\ UNCHANGED <<remotes, branches, head, upstream, tracking, index>>

\* fetch_unshallow("Parent"): `git fetch Parent --no-tags --unshallow`; when
\* it succeeds every branch of the remote is fetched
fetch_unshallow ==
  \E ext \in ExtOutcomes :
    LET c == Call("fetch_unshallow", "Parent", "", <<>>) IN
    /\ Called(c)
    /\ ext = "exit0" => remotes["Parent"] # NoRemote
    /\ tracking' = IF ext = "exit0"
                   THEN [t \in TrackingRefs |->
                           IF RemoteOf(t) = "Parent" THEN ServerTip(t) ELSE tracking[t]]
                   ELSE tracking
    /\ Return(c, StatusResult(ext), ext)
    /\ written' = {}
    /\ invoked' = {}
    /\ UNCHANGED <<remotes, branches, head, upstream, worktree, index>>

\* add_submodule("$Origin", "$SubDependency"): `git submodule add`; the
\* submodule lies outside the files of the model
add_submodule ==
  \E ext \in ExtOutcomes :
    LET c == Call("add_submodule", "$Origin", "$SubDependency", <<>>) IN
    /\ Called(c)
    /\ Return(c, StatusResult(ext), ext)
    /\ written' = {}
    /\ invoked' = {}
    /\ UNCHANGED repo

\* the tree a three-way merge gives: a side that changed a file wins over
\* the side that did not; a file both changed differently is in conflict and
\* stays, with both versions in it
Conflict == "conflict"
MergedTree(base, ours, theirs) ==
  [f \in AllFiles |->
     IF ours[f] = theirs[f] THEN ours[f]
     ELSE IF base[f] = ours[f] THEN theirs[f]
     ELSE IF base[f] = theirs[f] THEN ours[f]
     ELSE Conflict]

\* the merged tree without the files another of its files is a directory of
NoClash(tree) ==
  [f \in AllFiles |->
     IF \E g \in AllFiles : tree[g] # Absent /\ Clash(f, g) /\ Len(f) < Len(g)
     THEN Absent ELSE tree[f]]

\* repo.merge(theirs): the merge is written to the index and the working
\* tree, no commit is made; it fails when a file it changes has local
\* changes
Merge(wt, ours, theirs) ==
  LET base == MergeBase(ours, theirs)
      m == NoClash(MergedTree(TreeOf(base), TreeOf(ours), TreeOf(theirs)))
      changed == {f \in AllFiles : m[f] # TreeOf(ours)[f]} IN
  IF \E f \in changed : wt[f] # TreeOf(ours)[f] THEN [res |-> Err, wt |-> wt]
  ELSE [res |-> Ok, wt |-> [f \in AllFiles |-> IF f \in changed THEN m[f] ELSE wt[f]]]

\* merge_from_parent(repo)
merge_from_parent ==
  LET c == Call("merge_from_parent", "", "", <<>>)
      theirs == ParentTip
      r == IF theirs \in {Err, Panic} THEN [res |-> theirs, wt |-> worktree]
           ELSE IF HeadCommit = Err THEN [res |-> Err, wt |-> worktree]
           ELSE Merge(worktree, HeadCommit, theirs) IN
  /\ Called(c)
  /\ worktree' = r.wt
  /\ index' = IF r.res = Ok
              THEN (index \ {f \in AllFiles : r.wt[f] = Absent}) \cup
                   {f \in AllFiles : r.wt[f] # worktree[f]}
              ELSE index
  /\ Return(c, r.res, NoExit)
  /\ written' = {}
  /\ invoked' = {}
  /\ UNCHANGED <<remotes, branches, head, upstream, tracking>>

\* pull(repo): `git pull ... -X theirs`, run in repo.path() like clean; when
\* it succeeds the branch is either up to date or forwarded to the tip of
\* its upstream on the remote
pull ==
  \E ext \in ExtOutcomes, forward \in BOOLEAN :
    LET c == Call("pull", "", "", <<>>)
        up == upstream[head]
        tip == IF up = NoUpstream THEN NoCommit ELSE ServerTip(up) IN
    /\ Called(c)
    /\ forward => /\ ext = "exit0"
                  /\ tip # NoCommit
                  /\ HeadCommit # Err
                  /\ HeadCommit # tip
                  /\ MergeBase(HeadCommit, tip) = HeadCommit
                  /\ \A f \in AllFiles : f \in index => worktree[f] = TreeOf(HeadCommit)[f]
    /\ branches' = IF forward THEN [branches EXCEPT ![head] = tip] ELSE branches
    /\ tracking' = IF forward THEN [tracking EXCEPT ![up] = tip] ELSE tracking
    /\ worktree' = IF forward THEN Checkout(worktree, index, TreeOf(tip)) ELSE worktree
    /\ index' = IF forward THEN TreeFiles(TreeOf(tip)) ELSE index
    /\ Return(c, StatusResult(ext), ext)
    /\ written' = {}
    /\ invoked' = {}
    /\ UNCHANGED <<remotes, head, upstream>>

(***************************************************************************)
(* Index, reset and branches.                                              *)
(***************************************************************************)
\* add_all(repo): every file of the working tree is staged (no ignore rule
\* matches a file of the model); files that are gone stay in the index
add_all ==
  LET c == Call("add_all", "", "", <<>>) IN
  /\ Called(c)
  /\ index' = index \cup {f \in AllFiles : worktree[f] # Absent /\ ~UnderGit(f)}
  /\ Return(c, Ok, NoExit)
  /\ written' = {}
  /\ invoked' = {}
  /\ UNCHANGED <<remotes, branches, head, upstream, tracking, worktree>>

\* reset_file(repo, file): the file leaves the index
reset_file ==
  LET c == Call("reset_file", "", "", <<"package.json">>) IN
  /\ Called(c)
  /\ index' = index \ {c.path}
  /\ Return(c, Ok, NoExit)
  /\ written' = {}
  /\ invoked' = {}
  /\ UNCHANGED <<remotes, branches, head, upstream, tracking, worktree>>

\* reset_hard_to_parent(repo): the branch of HEAD, the index and the working
\* tree are set to the parent's tip
reset_hard_to_parent ==
  LET c == Call("reset_hard_to_parent", "", "", <<>>)
      tip == ParentTip
      done == tip \notin {Err, Panic} IN
  /\ Called(c)
  /\ branches' = IF done THEN [branches EXCEPT ![head] = tip] ELSE branches
  /\ worktree' = IF done THEN Checkout(worktree, index, TreeOf(tip)) ELSE worktree
  /\ index' = IF done THEN TreeFiles(TreeOf(tip)) ELSE index
  /\ Return(c, IF done THEN Ok ELSE tip, NoExit)
  /\ written' = {}
  /\ invoked' = {}
  /\ UNCHANGED <<remotes, head, upstream, tracking>>

\* switch_branch(repo, branch): repo.set_head; the branch need not exist
switch_branch ==
  \E b \in {"$Branch", "Current", "Previous"} :
    LET c == Call("switch_branch", b, "", <<>>) IN
    /\ Called(c)
    /\ head' = b
    /\ Return(c, Ok, NoExit)
    /\ written' = {}
    /\ invoked' = {}
    /\ UNCHANGED <<remotes, branches, upstream, tracking, worktree, index>>

\* (mutant) the branch is created, HEAD stays where it was
CreateAndSwitchBranch_KeepsHead(bs, h, b) ==
  IF bs[h] = NoCommit \/ bs[b] # NoCommit THEN [res |-> Err, branches |-> bs, head |-> h]
  ELSE [res |-> Ok, branches |-> [bs EXCEPT ![b] = bs[h]], head |-> h]

\* create_and_switch_branch(repo, branch): repo.head()?, then
\* repo.branch(branch, commit, false)?, then repo.set_head
CreateAndSwitchBranch(bs, h, b) ==
  IF bs[h] = NoCommit \/ bs[b] # NoCommit THEN [res |-> Err, branches |-> bs, head |-> h]
  ELSE [res |-> Ok, branches |-> [bs EXCEPT ![b] = bs[h]], head |-> b]

create_and_switch_branch ==
  \E b \in {"$Branch", "Current", "Previous"} :
    LET c == Call("create_and_switch_branch", b, "", <<>>)
        r == CreateAndSwitchBranch(branches, head, b) IN
    /\ Called(c)
    /\ branches' = r.branches
    /\ head' = r.head
    /\ Return(c, r.res, NoExit)
    /\ written' = {}
    /\ invoked' = {}
    /\ UNCHANGED <<remotes, upstream, tracking, worktree, index>>

(***************************************************************************)
(* The platform between two statements of main: every use of the branch    *)
(* name asks the platform again (get_parent_default_branch has no cache),  *)
(* and the parent's default branch may have been changed in between.       *)
(***************************************************************************)
parent_default_branch_changes ==
  /\ pc > 0 /\ status = "running"
  /\ gh \in {GhOk("main"), GhOk("dev")}
  /\ gh' = IF gh = GhOk("main") THEN GhOk("dev") ELSE GhOk("main")
  /\ UNCHANGED <<repo, pc, status, ncalls, last, prev, prewt, written, invoked,
                 fetched, extok>>

(***************************************************************************)
(* The repositories the program is started in.                             *)
(***************************************************************************)
WithRemotes(S) == [r \in RemoteNames |-> IF r \in S THEN "url" ELSE NoRemote]
InitRemotes == { WithRemotes({"Parent", "Source"}), WithRemotes({"origin"}) }

InitBranchSets ==
  { {"main"}, {"main", "Current"}, {"main", "Current", "Previous", "Branch"} }

NoTracking == [t \in TrackingRefs |-> NoCommit]
AllTracking == [t \in TrackingRefs |-> ServerTip(t)]
InitTracking ==
  { AllTracking,
    [NoTracking EXCEPT !["Parent/main"] = "cP", !["Source/Current"] = "cS"] }

\* a checkout of cH; the same with local edits and with files git does not
\* track; a checkout of cN, which has none of the swept files
WtClean == TreeOf("cH")
WtEdited == [WtClean EXCEPT ![<<"package.json">>] = "w",
                            ![<<"node_modules", "pkg", ".gitignore">>] = "n",
                            ![<<".git", "hooks", ".gitignore">>] = "g"]
WtBare == TreeOf("cN")
InitCheckouts ==
  { [commit |-> "cH", wt |-> WtClean], [commit |-> "cH", wt |-> WtEdited],
    [commit |-> "cN", wt |-> WtBare] }

\* how many of the values differ from the first repository of each set
Differ(g, rs, bs, tr, co) ==
  (IF g = GhOk("main") THEN 0 ELSE 1) + (IF rs = WithRemotes({"Parent", "Source"}) THEN 0 ELSE 1)
  + (IF bs = {"main"} THEN 0 ELSE 1) + (IF tr = AllTracking THEN 0 ELSE 1)
  + (IF co.wt = WtClean THEN 0 ELSE 1)

\* main is started in any of the repositories, with the platform answering
\* or, in the first repository, failing; the functions are called on their
\* own in the repositories that differ from the first in one respect. HEAD
\* is on main, which tracks Source/Current when there is a remote Source
Init ==
  /\ pc \in {0, 1}
  /\ \E g \in GhStates, rs \in InitRemotes, bs \in InitBranchSets,
        tr \in InitTracking, co \in InitCheckouts :
       /\ IF pc = 0 THEN Differ(g, rs, bs, tr, co) <= 1
          ELSE g \in {GhOk("main"), GhOk("dev")} \/ Differ(g, rs, bs, tr, co) <= 1
       /\ gh = g
       /\ remotes = rs
       /\ branches = [b \in BranchNames |-> IF b \in bs THEN co.commit ELSE NoCommit]
       /\ tracking = tr
       /\ worktree = co.wt
       /\ index = TreeFiles(TreeOf(co.commit))
  /\ head = "main"
  /\ upstream = [b \in BranchNames |->
                   IF b = "main" /\ remotes["Source"] # NoRemote THEN "Source/Current"
                   ELSE NoUpstream]
  /\ status = "running"
  /\ ncalls = 0
  /\ last = NoCall
  /\ prev = NoCall
  /\ prewt = worktree
  /\ written = {}
  /\ invoked = {}
  /\ fetched = {}
  /\ extok = TRUE

Next ==
  \/ restore_gitignore_from_parent
  \/ restore_package_json_from_parent
  \/ set_default_repo
  \/ add_all
  \/ set_upstream
  \/ clean
  \/ fetch_from_remote
  \/ fetch_unshallow
  \/ merge_from_parent
  \/ pull
  \/ push
  \/ push_set_upstream
  \/ add_remote
  \/ remove_remote
  \/ set_remote_url
  \/ reset_hard_to_parent
  \/ reset_file
  \/ restore_file_from_parent
  \/ restore_from_source
  \/ restore_file
  \/ add_submodule
  \/ switch_branch
  \/ create_and_switch_branch
  \/ get_parent_default_branch
  \/ parent_default_branch_changes

Spec == Init /\ [][Next]_vars

(***************************************************************************)
(* Properties.                                                             *)
(***************************************************************************)
InMain == pc > 0
Sweeps == {"restore_gitignore_from_parent", "restore_package_json_from_parent"}
Restores == {"restore_file_from_parent", "restore_from_source", "restore_file"}
SweptName(fn) == IF fn = "restore_gitignore_from_parent" THEN ".gitignore" ELSE "package.json"
Continues == status \in {"running", "ok"}
NothingDeleted == \A f \in AllFiles : prewt[f] # Absent => worktree[f] # Absent

\* C1 (as claimed): in main, a step that failed, an external command that
\* exited with a non-zero status included, is the last step of the run: the
\* run has ended with an error
C1_EveryFailureAborts ==
  (InMain /\ (last.res # Ok \/ last.exit = "exit1")) => ~Continues

\* C2 (as claimed): a call remove_remote("origin") never aborts the run: when
\* there is no remote origin the failure is tolerated and the run continues
C2_MissingOriginTolerated ==
  (last.fn = "remove_remote" /\ last.a = "origin") => Continues

\* C3 (as claimed): a sweep of main never hands a path under node_modules
\* or under .git to restore_file_from_parent
C3_ExcludedRootsNotRestored ==
  (InMain /\ last.fn \in Sweeps) =>
    \A p \in invoked : ~IsPrefix(<<"node_modules">>, FsPath(p)) /\ ~UnderGit(FsPath(p))

\* C4: once restore_file("package.json") has succeeded, the working tree's
\* package.json has the content of package.json in the tree of HEAD,
\* whatever was written to it before
C4_RestorePrecedence ==
  (last.fn = "restore_file" /\ last.path = <<"package.json">> /\ last.res = Ok) =>
    /\ HeadCommit # Err
    /\ worktree[<<"package.json">>] = TreeOf(HeadCommit)[<<"package.json">>]

C4_Witness ==
  /\ last.fn = "restore_file" /\ last.path = <<"package.json">> /\ last.res = Ok
  /\ prev.fn = "restore_from_source" /\ prev.path = <<"package.json">> /\ prev.res = Ok
  /\ prewt[<<"package.json">>] = "s"
  /\ worktree[<<"package.json">>] = "h"

\* C5: restore_file_from_parent(path), when the parent's tip is found and
\* path is absent from its tree or is a directory there, returns an error,
\* which ends the run, and writes nothing
C5_NonBlobFails ==
  (/\ last.fn = "restore_file_from_parent"
   /\ ParentTip \notin {Err, Panic}
   /\ TreeGetPath(TreeOf(ParentTip), last.path) \in {NotFound, IsTree}) =>
    /\ last.res = Err
    /\ status = "err"
    /\ worktree = prewt
    /\ written = {}

C5_Witness ==
  /\ last.fn = "restore_file_from_parent" /\ last.path = <<"src">>
  /\ ParentTip \notin {Err, Panic}
  /\ TreeGetPath(TreeOf(ParentTip), <<"src">>) = IsTree
  /\ last.res = Err
  /\ worktree = prewt

\* C6: set_upstream for a local branch that does not exist returns an error
\* and leaves every upstream binding as it was; a run of main that gets to
\* the upstream binding without the branches Current and Previous ends there
\* with an error, after the sweeps and the staging, and runs none of the
\* statements from clean on
C6_UpstreamFailsFast ==
  /\ [][(last'.fn = "set_upstream" /\ branches[last'.a] = NoCommit) =>
          (last'.res = Err /\ status' = "err" /\ upstream' = upstream)]_vars
  /\ []((InMain /\ (branches["Current"] = NoCommit \/ branches["Previous"] = NoCommit))
          => pc <= 6)
  /\ []((InMain /\ last.fn = "set_upstream" /\ last.res = Err)
          => (pc \in {5, 6} /\ status = "err" /\ prev.fn \in {"add_all", "set_upstream"}))

C6_Witness ==
  /\ InMain /\ pc = 5 /\ status = "err"
  /\ last.fn = "set_upstream" /\ last.a = "Current" /\ branches["Current"] = NoCommit
  /\ prev.fn = "add_all" /\ prev.res = Ok

\* C7 (as claimed): get_parent_default_branch returns an error value whenever
\* a query exits non-zero, answers no JSON, or answers JSON without the
\* field read
C7_ResolverReturnsError ==
  (last.fn = "get_parent_default_branch" /\ (gh.q1 # "ok" \/ gh.q2 # "ok")) =>
    last.res = Err

\* C8 (as claimed): after a sweep that directly follows a sweep for the same
\* filename, with the parent's tip found, the second sweep has written no
\* file and every swept file the parent's tree holds has the parent's content
C8_SecondSweepWritesNothing ==
  (last.fn \in Sweeps /\ prev.fn = last.fn /\ ParentTip \notin {Err, Panic}) =>
    /\ written = {}
    /\ \A t \in SweepTargets(worktree, SweptName(last.fn)) :
         TreeOf(ParentTip)[FsPath(t)] # Absent =>
           worktree[FsPath(t)] = TreeOf(ParentTip)[FsPath(t)]

\* C9 (as claimed): a restore whose path is a blob in the source tree
\* succeeds and writes the blob to the file also when the directory of the
\* file does not exist in the working tree
C9_ParentDirsCreated ==
  (/\ last.fn = "restore_file_from_parent"
   /\ ParentTip \notin {Err, Panic}
   /\ BlobAt(ParentTip, last.path) # Err
   /\ ~DirExists(prewt, SubSeq(last.path, 1, Len(last.path) - 1))) =>
    /\ last.res = Ok
    /\ worktree[last.path] = BlobAt(ParentTip, last.path)

\* C10 (as claimed): no step of main but clean removes a file of the
\* working tree
C10_OnlyCleanDeletes == (InMain /\ last.fn # "clean") => NothingDeleted

\* C10 (amended): no call, in main or outside it, but clean,
\* merge_from_parent, pull and reset_hard_to_parent removes a file of the
\* working tree
C10_OnlyCleanMergePullResetDelete ==
  last.fn \notin {"clean", "merge_from_parent", "pull", "reset_hard_to_parent"} =>
    NothingDeleted

C10_Witness ==
  /\ last.fn \in Restores /\ last.res = Ok
  /\ prewt[last.path] # Absent
  /\ worktree[last.path] # prewt[last.path]

\* C11: a call create_and_switch_branch(B) made while HEAD references a
\* branch that points at a commit C and no local branch B exists returns Ok;
\* after it B points at C, HEAD references B, and every other local branch
\* points where it did
C11_BranchCreatedFromHead ==
  [][(create_and_switch_branch /\ branches[head] # NoCommit
        /\ branches[last'.a] = NoCommit) =>
       /\ last'.res = Ok
       /\ branches'[last'.a] = branches[head]
       /\ head' = last'.a
       /\ \A b \in BranchNames \ {last'.a} : branches'[b] = branches[b]]_vars

C11_Witness ==
  /\ last.fn = "create_and_switch_branch" /\ last.a = "Previous" /\ last.res = Ok
  /\ prev.fn = "switch_branch" /\ prev.a = "Current"
  /\ head = "Previous"
  /\ branches["Previous"] = "cH" /\ branches["Current"] = "cH"
  /\ branches["main"] = "cH"

\* C12 (as claimed): after remove_remote("Parent") has succeeded, the call
\* that follows it and looks the remote Parent up, set_remote_url("Parent",
\* ...), reset_hard_to_parent or restore_file_from_parent, does not succeed
C12_RemovedParentNotFound ==
  (/\ prev.fn = "remove_remote" /\ prev.a = "Parent" /\ prev.res = Ok
   /\ \/ last.fn = "set_remote_url" /\ last.a = "Parent"
      \/ last.fn \in {"reset_hard_to_parent", "restore_file_from_parent"}) =>
    last.res # Ok

\* the statements of main that rebind the remotes Parent and Source
\* (statements 15 to 20) have all returned Ok
RebindingDone == pc > 20
\* both sweeps of main (statements 1 and 2) have returned Ok
SweepsDone == pc > 2

\* C13 (as claimed): in main, add_all is called only after both sweeps have
\* returned Ok, and fetch_from_remote is called only after the rebinding of
\* the remotes has completed
C13_SweepsBeforeStagingRebindBeforeFetch ==
  /\ (InMain /\ last.fn = "add_all") => SweepsDone
  /\ (InMain /\ last.fn = "fetch_from_remote") => RebindingDone

\* C14 (as claimed): add_remote, remove_remote or create_and_switch_branch
\* called a second time with the same arguments, right after its first call
\* returned Ok, returns Ok
C14_SecondApplicationSucceeds ==
  (/\ last.fn \in {"add_remote", "remove_remote", "create_and_switch_branch"}
   /\ prev.fn = last.fn /\ prev.a = last.a /\ prev.b = last.b
   /\ prev.res = Ok) =>
    last.res = Ok

\* C15 (as claimed): in a run of main, two statements that follow one
\* another and both use the parent's default branch name use the same name
C15_OneResolvedBranchPerRun ==
  (InMain /\ last.name # "" /\ prev.name # "") => last.name = prev.name

\* the files the pipeline overwrites from the parent
OverrideManaged == { <<"package.json">>, <<"tsconfig.json">>, <<".gitignore">> }

\* the commit the call before the last one, or the last one, found at
\* Parent/<the name it resolved>
TipOf(call) == tracking[RemoteBranch("Parent", call.name)]

\* C16: the override-managed files after the reset and the restores are
\* those of the refs, whatever merge_from_parent and pull left in the
\* working tree: after reset_hard_to_parent has returned Ok every one of
\* them has the content it has in the tree of the parent's tip, and a
\* restore or reset_file that follows leaves it so or with the content it
\* has in the tree of Source/Current; two runs that differ in what merge and
\* pull wrote therefore agree on these files
C16_OverridesIndependentOfMerge ==
  /\ (last.fn = "reset_hard_to_parent" /\ last.res = Ok) =>
       \A f \in OverrideManaged : worktree[f] = TreeOf(TipOf(last))[f]
  /\ (/\ prev.fn = "reset_hard_to_parent" /\ prev.res = Ok
      /\ last.fn \in Restores \cup {"reset_file"}) =>
       \A f \in OverrideManaged :
         worktree[f] \in { TreeOf(TipOf(prev))[f], TreeOf(tracking["Source/Current"])[f] }

C16_Witness ==
  /\ last.fn = "reset_hard_to_parent" /\ last.res = Ok
  /\ prev.fn = "merge_from_parent" /\ prev.res = Ok
  /\ prewt[<<"package.json">>] = Conflict
  /\ worktree[<<"package.json">>] = "p"

C18_PipelineCanComplete ==
  (InMain /\ extok /\ last.fn = "add_remote" /\ last.a = "Parent") => last.res = Ok

\* what the model shows of main instead: no run passes statement 15, the
\* call add_remote("Parent", ...), and none returns Ok(())
MainStopsAtAddRemote == pc <= 15 /\ status # "ok"

C20_UsedRefWasFetched ==
  (/\ InMain
   /\ last.fn \in {"merge_from_parent", "reset_hard_to_parent", "restore_file_from_parent"}
   /\ last.name # "") =>
    RemoteBranch("Parent", last.name) \in fetched

====
